---- MODULE Spec2Model ----
(***************************************************************************)
(* Retrieval context engine of smart_document_search:                      *)
(*   - DocumentProcessor   (app/document_processor.py)  text chunking      *)
(*   - ContextManager      (app/memory/context_manager.py) token budgeting *)
(*   - HybridSearchEngine  (app/search/hybrid_search.py) retrieval         *)
(* Each component is synchronous and stateless between calls, so each has  *)
(* its own specification (SpecChunk, SpecCtx, SpecSearch) that draws the   *)
(* inputs of one call in Init and then runs the call.                      *)
(***************************************************************************)
EXTENDS Integers, Sequences, FiniteSets, TLC

VARIABLES
    \* ---- DocumentProcessor ----
    chunk_size,      \* self.chunk_size
    chunk_overlap,   \* self.chunk_overlap
    caller,          \* entry point of the call
    raw,             \* decoded file text / extracted PDF text handed in
    text,            \* local `text` of _chunk_text (after strip)
    pc,              \* position of the call
    start,           \* local `start`
    chunks,          \* local `chunks`
    spans,           \* <<start, end>> of every emitted chunk (history)
    iters,           \* number of loop bodies executed (history)
    records,         \* formatted_chunks returned by process_*_file
    outcome,         \* "none" | "ok" | "TypeError" | "ValueError"
    \* ---- ContextManager ----
    max_tokens,          \* self.max_tokens
    messages,            \* argument `messages`
    additional_context,  \* argument `additional_context` (NoText = None)
    preserve_recent,     \* argument `preserve_recent`
    cxpc,                \* position of the optimize_context call
    optimized_messages,  \* returned messages
    context_summary,     \* local `context_summary` (NoText = "")
    summary,             \* what _summarize_messages returned (NoText = not called)
    returned_context,    \* additional_context as returned
    total_tokens,        \* returned total_tokens
    summarize_call,   \* arguments and outcome of the _summarize_messages call
    recent_messages,  \* the split of line 68 (<< >> before it is made)
    older_messages,   \* the split of line 69
    compression_threshold,  \* self.compression_threshold
    \* ---- HybridSearchEngine ----
    index,            \* chunks held by the external index
    query,            \* argument `query`
    strategy,         \* argument `strategy`
    max_results,      \* argument `max_results`
    semantic_weight,  \* argument `semantic_weight`, in tenths
    document_filter,  \* argument `document_filter` (NoFilter = None)
    hspc,             \* position of the hybrid_search call
    calls,            \* outbound calls made, in order
    results,          \* returned list
    error_logged,     \* logger.error was called
    failed_call,      \* the outbound call that raised ("none" if none did)
    search_raised,    \* hybrid_search raised to its caller
    estimate,         \* value returned by estimate_chunks
    \* ---- token counting (ContextManager) ----
    tk_caller,        \* count_tokens | count_messages_tokens | get_context_stats
    tk_messages,      \* contents of the messages handed in
    tk_text,          \* the text / additional_context handed in
    tk_pc,            \* position of the call
    tk_value,         \* the count returned
    tk_outcome,       \* "none" | "ok" | "ValueError"
    \* ---- upload_document (app/main.py) ----
    file_ext,         \* extension of the uploaded file
    pdf_parseable,    \* PdfReader can read the bytes
    http_status,      \* status of the response (0 = none yet)
    \* ---- ConversationMemory / ask_question ----
    stored,           \* messages of the conversation, by timestamp
    ask_pc,           \* position of the ask_question request
    use_context,      \* request.use_context
    conversation_context,  \* what ask_question loaded
    fetched,          \* last get_conversation_messages call: limit, table, result
    \* ---- get_search_engine (module-level singleton) ----
    search_engine,    \* the module global _search_engine (0 = None)
    engines_built,    \* HybridSearchEngine instances constructed so far
    gse_pc,           \* position of each caller inside get_search_engine
    gse_new,          \* the instance a caller has constructed and not yet stored
    gse_got,          \* the instance returned to each caller (0 = none yet)
    gse_writers,      \* callers that have written the global
    \* ---- ask_question (app/main.py) with its persisted state ----
    db_conversations,   \* number of rows of the conversations table
    db_messages,        \* rows of conversation_messages, in insertion order
    aq_pc,              \* position of the current ask_question request
    aq_request,         \* the request: conversation_id (0 = None), special
    aq_conversation_id, \* local `conversation_id`
    aq_status,          \* status of the response (0 = none yet)
    aq_before,          \* the persisted state when the request arrived
    aq_count,           \* requests handled so far
    \* ---- upload_document / delete_document over database and index ----
    db_documents,     \* ids of the rows of the documents table
    db_chunk_count,   \* document.chunk_count of each document id
    db_chunks,        \* rows of document_chunks: <<document id, chunk_index>>
    ix_chunks,        \* chunks held by the search index, same shape
    st_response,      \* the last response: op, document_id, status, chunks_created
    st_uploads        \* upload requests handled so far

ckVars == <<chunk_size, chunk_overlap, caller, raw, text, pc, start, chunks,
            spans, iters, records, outcome, estimate>>

cxVars == <<max_tokens, messages, additional_context, preserve_recent, cxpc,
            optimized_messages, context_summary, summary, returned_context,
            total_tokens, summarize_call,
            recent_messages, older_messages, compression_threshold>>

hsVars == <<index, query, strategy, max_results, semantic_weight, document_filter,
            hspc, calls, results, error_logged, failed_call, search_raised>>

tkVars == <<tk_caller, tk_messages, tk_text, tk_pc, tk_value, tk_outcome>>

upVars == <<file_ext, pdf_parseable, http_status>>

cvVars == <<stored, ask_pc, use_context, conversation_context, fetched>>

sgVars == <<search_engine, engines_built, gse_pc, gse_new, gse_got, gse_writers>>

aqVars == <<db_conversations, db_messages, aq_pc, aq_request, aq_conversation_id,
            aq_status, aq_before, aq_count>>

stVars == <<db_documents, db_chunk_count, db_chunks, ix_chunks, st_response, st_uploads>>

vars == <<ckVars, cxVars, hsVars, tkVars, upVars, cvVars, sgVars, aqVars, stVars>>

(* Everything but one component's variables. *)
notChunk == <<cxVars, hsVars, tkVars, upVars, cvVars, sgVars, aqVars, stVars>>
notCtx == <<ckVars, hsVars, tkVars, upVars, cvVars, sgVars, aqVars, stVars>>
notSearch == <<ckVars, cxVars, tkVars, upVars, cvVars, sgVars, aqVars, stVars>>
notTok == <<ckVars, cxVars, hsVars, upVars, cvVars, sgVars, aqVars, stVars>>
notConv == <<ckVars, cxVars, hsVars, tkVars, upVars, sgVars, aqVars, stVars>>
notUpload == <<cxVars, hsVars, tkVars, cvVars, sgVars, aqVars, stVars>>
notEngine == <<ckVars, cxVars, hsVars, tkVars, upVars, cvVars, aqVars, stVars>>
notAsk == <<ckVars, cxVars, hsVars, tkVars, upVars, cvVars, sgVars, stVars>>
notStore == <<ckVars, cxVars, hsVars, tkVars, upVars, cvVars, sgVars, aqVars>>

-----------------------------------------------------------------------------
(* Bounds of the model *)

SmallChunk == 15
MaxLen == 19
MaxShort == 3
MaxIters == 24

(* Program constants *)

DefaultChunkSize == 500
DefaultChunkOverlap == 50
ScenarioLen == 1200
ScenarioPeriod == 100

-----------------------------------------------------------------------------
(* Generic helpers *)

Min(S) == CHOOSE x \in S : \A y \in S : x <= y
Max(S) == CHOOSE x \in S : \A y \in S : x >= y

CeilDiv(a, b) == (a + b - 1) \div b

(* Python s[a:b] for 0 <= a, 0 <= b (0-based, end exclusive, clamped). *)
Slice(s, a, b) == SubSeq(s, a + 1, IF b > Len(s) THEN Len(s) ELSE b)

(* Characters Python's str.strip() removes, among the model's alphabet. *)
IsSpace(c) == c \in {" ", "\n"}

(* Variant that trims the left side only (str.lstrip()). *)
StripLeftOnly(s) ==
    LET keep == {i \in 1..Len(s) : ~IsSpace(s[i])}
    IN  IF keep = {} THEN << >> ELSE SubSeq(s, Min(keep), Len(s))

(* str.strip(): drop leading and trailing whitespace. *)
Strip(s) ==
    LET keep == {i \in 1..Len(s) : ~IsSpace(s[i])}
    IN  IF keep = {} THEN << >> ELSE SubSeq(s, Min(keep), Max(keep))

(* str.rfind(d) for a two-character d: highest 0-based index, or -1. *)
RFind(s, d) ==
    LET hits == {i \in 1..(Len(s) - 1) : s[i] = d[1] /\ s[i + 1] = d[2]}
    IN  IF hits = {} THEN -1 ELSE Max(hits) - 1

-----------------------------------------------------------------------------
(* DocumentProcessor *)

(* The delimiter list of _find_sentence_boundary, in its order. *)
Delimiters ==
    << <<".", " ">>, <<".", "\n">>, <<"!", " ">>, <<"!", "\n">>,
       <<"?", " ">>, <<"?", "\n">> >>

(* _find_sentence_boundary: the first delimiter of the list that occurs in  *)
(* the last chunk_size // 5 characters decides; its last occurrence.        *)
FindSentenceBoundary(t, s, e) ==
    LET search_start == e - (chunk_size \div 5)
        search_text  == Slice(t, search_start, e)
        found == {k \in 1..Len(Delimiters) : RFind(search_text, Delimiters[k]) # -1}
    IN  IF found = {} THEN e
        ELSE search_start + RFind(search_text, Delimiters[Min(found)]) + 2

(* estimate_chunks *)
EstimateChunks(content_length) ==
    IF content_length <= chunk_size THEN 1
    ELSE CeilDiv(content_length, chunk_size - chunk_overlap)

(* Variant of the guard that evaluates to False without raising. *)
GuardNeverRaises(cs) == FALSE

(* Line 185, `if start <= chunks[-1] if chunks else False:` parses as       *)
(* `(start <= chunks[-1]) if chunks else False`; with a non-empty list it   *)
(* compares an int against a str, which raises TypeError.                   *)
GuardRaises(cs) == cs # << >>

(* Marker that process_pdf_file puts before a page's text. *)
PageMarker == <<"\n", "\n", "[", "P", "1", "]", "\n">>

(* full_text of process_pdf_file for a one-page document. *)
FullText(page_text) == IF page_text = << >> THEN << >> ELSE PageMarker \o page_text

(* ---- inputs ---- *)

DelimKinds == { <<".", " ">>, <<"!", "\n">> }

(* A text of length L of "x" with the delimiters of P (position -> kind). *)
Body(L, P) ==
    [i \in 1..L |->
        IF i \in DOMAIN P THEN P[i][1]
        ELSE IF (i - 1) \in DOMAIN P THEN P[i - 1][2]
        ELSE "x"]

Placements(L) ==
    UNION { [D -> DelimKinds] : D \in {S \in SUBSET (1..(L - 1)) : Cardinality(S) <= 1} }

LongTexts ==
    UNION { { Body(L, P) : P \in Placements(L) } : L \in (SmallChunk - 1)..MaxLen }

RECURSIVE SeqsUpTo(_, _)
SeqsUpTo(A, n) ==
    IF n = 0 THEN { << >> }
    ELSE LET prev == SeqsUpTo(A, n - 1)
         IN  prev \cup { Append(s, c) : s \in prev, c \in A }

ShortTexts == SeqsUpTo({"x", " ", "."}, MaxShort)

(* 1,200 ASCII characters with ". " closing every 100 characters. *)
ScenarioText ==
    [i \in 1..ScenarioLen |->
        IF i % ScenarioPeriod = ScenarioPeriod - 1 THEN "."
        ELSE IF i % ScenarioPeriod = 0 THEN " " ELSE "x"]

(* 1,200 ASCII characters with a bare "." closing every 100 characters. *)
ScenarioTextBare ==
    [i \in 1..ScenarioLen |-> IF i % ScenarioPeriod = 0 THEN "." ELSE "x"]

(* 600 "x" with ". " and, 25 characters later, "! ", both inside the last  *)
(* fifth of the first window.                                               *)
ScenarioTextMixed ==
    LET dot  == DefaultChunkSize - DefaultChunkOverlap
        bang == dot + DefaultChunkOverlap \div 2
    IN  [i \in 1..(DefaultChunkSize + ScenarioPeriod) |->
            IF i = dot THEN "."
            ELSE IF i = bang THEN "!"
            ELSE IF i = dot + 1 \/ i = bang + 1 THEN " "
            ELSE "x"]

SmallConfigs ==
    { <<SmallChunk, o>> : o \in {0, SmallChunk \div 5, SmallChunk - 2, SmallChunk - 1} }

Callers == {"_chunk_text", "process_text_file", "process_pdf_file"}

(* The document processor at rest (specifications of the other components). *)
ChunkIdle ==
    /\ chunk_size = DefaultChunkSize
    /\ chunk_overlap = DefaultChunkOverlap
    /\ caller = "_chunk_text"
    /\ raw = << >>
    /\ text = << >>
    /\ pc = "idle"
    /\ start = 0
    /\ chunks = << >>
    /\ spans = << >>
    /\ iters = 0
    /\ records = << >>
    /\ outcome = "none"
    /\ estimate = 0

ChunkInit ==
    /\ \/ /\ \E cfg \in SmallConfigs :
                /\ chunk_size = cfg[1]
                /\ chunk_overlap = cfg[2]
          /\ raw \in LongTexts \cup ShortTexts
       \/ /\ chunk_size = DefaultChunkSize
          /\ chunk_overlap = DefaultChunkOverlap
          /\ raw \in {ScenarioText, ScenarioTextBare, ScenarioTextMixed}
    /\ caller \in Callers
    /\ text = << >>
    /\ pc = "call"
    /\ start = 0
    /\ chunks = << >>
    /\ spans = << >>
    /\ iters = 0
    /\ records = << >>
    /\ outcome = "none"
    /\ estimate = 0

(* ---- operations ---- *)

(* Entry: process_text_file lines 42-45, process_pdf_file lines 106-111,    *)
(* then _chunk_text lines 158-164.                                          *)
ChunkTextEntry ==
    /\ pc = "call"
    /\ caller \in Callers
    /\ LET arg == IF caller = "process_pdf_file" THEN Strip(FullText(raw)) ELSE raw
           t   == Strip(arg)
       IN  IF caller = "process_pdf_file" /\ Strip(FullText(raw)) = << >>
           THEN /\ pc' = "done"
                /\ outcome' = "ok"
                /\ UNCHANGED <<text, chunks>>
           ELSE /\ text' = t
                /\ IF Len(t) <= chunk_size
                   THEN /\ chunks' = <<t>>
                        /\ pc' = "chunked"
                   ELSE /\ chunks' = << >>
                        /\ pc' = "loop"
                /\ UNCHANGED outcome
    /\ UNCHANGED <<estimate, chunk_size, chunk_overlap, caller, raw, start, spans, iters, records>>
    /\ UNCHANGED notChunk

(* One evaluation of `while start < len(text)` and, if it holds, one body   *)
(* (lines 166-186).                                                         *)
LoopStep ==
    /\ pc = "loop"
    /\ iters < MaxIters
    /\ IF start < Len(text)
       THEN LET end0 == start + chunk_size
                sentence_end == FindSentenceBoundary(text, start, end0)
                end == IF end0 < Len(text) /\ sentence_end > start
                       THEN sentence_end ELSE end0
                chunk == Strip(Slice(text, start, end))
                chunks1 == IF chunk # << >> THEN Append(chunks, chunk) ELSE chunks
                start1 == end - chunk_overlap
            IN  /\ chunks' = chunks1
                /\ spans' = IF chunk # << >> THEN Append(spans, <<start, end>>) ELSE spans
                /\ iters' = iters + 1
                /\ IF GuardRaises(chunks1)
                   THEN /\ pc' = "raised"
                        /\ start' = start1
                   ELSE /\ pc' = "loop"
                        /\ start' = start1
       ELSE /\ pc' = "chunked"
            /\ UNCHANGED <<chunks, spans, iters, start>>
    /\ UNCHANGED <<estimate, chunk_size, chunk_overlap, caller, raw, text, records, outcome>>
    /\ UNCHANGED notChunk

(* What the entry point makes of _chunk_text's return or exception:         *)
(* process_text_file lines 47-62, process_pdf_file lines 113-134.           *)
FormatChunks(cs) == [i \in 1..Len(cs) |-> [chunk_index |-> i - 1, content |-> cs[i]]]

ChunkReturn ==
    /\ pc \in {"chunked", "raised"}
    /\ pc' = "done"
    /\ IF pc = "chunked"
       THEN /\ outcome' = "ok"
            /\ records' = IF caller = "_chunk_text" THEN << >> ELSE FormatChunks(chunks)
       ELSE /\ records' = << >>
            /\ outcome' = CASE caller = "_chunk_text" -> "TypeError"
                            [] caller = "process_text_file" -> "ok"
                            [] caller = "process_pdf_file" -> "ValueError"
    /\ UNCHANGED <<estimate, chunk_size, chunk_overlap, caller, raw, text, start, chunks, spans, iters>>
    /\ UNCHANGED notChunk

ChunkNext == ChunkTextEntry \/ LoopStep \/ ChunkReturn

(* ---- configurations with chunk_overlap >= chunk_size ---- *)

(* Python's // : the floor of the quotient, for a divisor of either sign. *)
FloorDiv(a, b) == IF b > 0 THEN a \div b ELSE (-a) \div (-b)

(* __init__ (lines 18-27) stores whatever it is given. *)
AnyConfigs ==
    { <<SmallChunk, o>> : o \in {SmallChunk - 1, SmallChunk, SmallChunk + 2} }

ChunkAnyInit ==
    /\ \E cfg \in AnyConfigs :
          /\ chunk_size = cfg[1]
          /\ chunk_overlap = cfg[2]
    /\ raw \in LongTexts \cup ShortTexts
    /\ caller \in Callers \cup {"estimate_chunks"}
    /\ text = << >>
    /\ pc = "call"
    /\ start = 0
    /\ chunks = << >>
    /\ spans = << >>
    /\ iters = 0
    /\ records = << >>
    /\ outcome = "none"
    /\ estimate = 0

(* estimate_chunks(len(raw)), lines 205-211. *)
EstimateChunksCall ==
    /\ pc = "call"
    /\ caller = "estimate_chunks"
    /\ pc' = "done"
    /\ LET content_length == Len(raw)
           effective_chunk_size == chunk_size - chunk_overlap
       IN  IF content_length <= chunk_size
           THEN /\ estimate' = 1
                /\ outcome' = "ok"
           ELSE IF effective_chunk_size = 0
           THEN /\ estimate' = 0
                /\ outcome' = "ZeroDivisionError"
           ELSE /\ estimate' = FloorDiv(content_length + effective_chunk_size - 1,
                                        effective_chunk_size)
                /\ outcome' = "ok"
    /\ UNCHANGED <<chunk_size, chunk_overlap, caller, raw, text, start, chunks,
                   spans, iters, records>>
    /\ UNCHANGED notChunk

ChunkAnyNext == ChunkTextEntry \/ LoopStep \/ ChunkReturn \/ EstimateChunksCall

-----------------------------------------------------------------------------
(* ContextManager *)

(* A text is known to the context manager by its length in characters and  *)
(* by the count the tokenizer gives for it: [len |-> n, tok |-> t].  None   *)
(* (and a summary that was never made) is NoText.                           *)
NoText == [len |-> -1, tok |-> 0]

EmptyText == [len |-> 0, tok |-> 0]

(* Python truthiness of an Optional[str]: None and "" are falsy. *)
Truthy(t) == t.len > 0

(* count_tokens *)
CountTokens(t) == t.tok

(* count_tokens(message.role.value): "user", "assistant" and "system" are   *)
(* one token each in the gpt-4 encoding.                                    *)
RoleTokens(role) == 1

(* count_messages_tokens *)
RECURSIVE CountMessagesTokens(_)
CountMessagesTokens(ms) ==
    IF ms = << >> THEN 0
    ELSE RoleTokens(Head(ms).role) + CountTokens(Head(ms).content) + 4
         + CountMessagesTokens(Tail(ms))

(* Variant of the recent split that keeps one message fewer. *)
RecentMessagesOneLess(ms, p) ==
    IF Len(ms) > p
    THEN (IF p <= 1 THEN ms ELSE SubSeq(ms, Len(ms) - p + 2, Len(ms)))
    ELSE ms

(* messages[-p:] if len(messages) > p else messages   (note -0 = 0) *)
RecentMessages(ms, p) ==
    IF Len(ms) > p
    THEN (IF p = 0 THEN ms ELSE SubSeq(ms, Len(ms) - p + 1, Len(ms)))
    ELSE ms

(* messages[:-p] if len(messages) > p else [] *)
OlderMessages(ms, p) ==
    IF Len(ms) > p
    THEN (IF p = 0 THEN << >> ELSE SubSeq(ms, 1, Len(ms) - p))
    ELSE << >>

(* available_tokens, line 75 *)
AvailableTokens(recent_tokens, additional_tokens) ==
    max_tokens - recent_tokens - additional_tokens

(* Variant of the comparison that needs one token to spare. *)
FitsBudgetStrict(older_tokens, available_tokens) == older_tokens < available_tokens

(* `older_tokens <= available_tokens`, line 87 *)
FitsBudget(older_tokens, available_tokens) == older_tokens <= available_tokens

(* Variant of the budget handed to the summarizer: all of it. *)
SummaryBudgetAll(available_tokens) == available_tokens

(* max_tokens handed to _summarize_messages, line 94 *)
SummaryBudget(available_tokens) == available_tokens \div 2

MinOf(a, b) == IF a < b THEN a ELSE b

RECURSIVE SumLenCapped(_, _)
SumLenCapped(ms, cap) ==
    IF ms = << >> THEN 0
    ELSE MinOf(Head(ms).content.len, cap) + SumLenCapped(Tail(ms), cap)

(* Variant of the fallback that joins every older message. *)
FallbackLenAll(ms) ==
    30 + SumLenCapped(ms, 50) + (IF Len(ms) > 1 THEN 2 * (Len(ms) - 1) ELSE 0) + 3

(* Length of the fallback of line 167:                                      *)
(* "Earlier conversation covered: " + ", ".join(content[:50] of the first 3)*)
(* + "..."                                                                  *)
FallbackLen(ms) ==
    LET first3 == SubSeq(ms, 1, MinOf(3, Len(ms)))
    IN  30 + SumLenCapped(first3, 50)
           + (IF Len(first3) > 1 THEN 2 * (Len(first3) - 1) ELSE 0) + 3

(* What _summarize_messages can return: the collaborator's summary, capped  *)
(* by max_tokens of the completion request, or, when the call or the        *)
(* handling of its response raises, the fallback text, whose token count    *)
(* lies between one and one per character.                                  *)
SummarizeOutcomes(ms, budget) ==
    { [failed |-> FALSE, text |-> [len |-> 4 * t, tok |-> t]] :
          t \in {x \in {0, 1, budget \div 2, budget} : x >= 0 /\ x <= budget} }
    \cup
    { [failed |-> TRUE, text |-> [len |-> FallbackLen(ms), tok |-> t]] :
          t \in {1, FallbackLen(ms)} }

(* int(x) of a quotient: truncation toward zero. *)
TruncDiv(a, b) == IF a >= 0 THEN a \div b ELSE -((-a) \div b)

(* Length of "...\n[Context truncated due to length]" *)
MarkerLen == 37

(* _compress_context: the texts it can return.  The kept prefix is          *)
(* context[:truncate_at]; a negative truncate_at counts from the end.       *)
CompressOutcomes(context, target) ==
    LET current_tokens == CountTokens(context)
        truncate_at == TruncDiv(context.len * target * 9, current_tokens * 10)
        kept == IF truncate_at >= 0 THEN MinOf(truncate_at, context.len)
                ELSE (IF context.len + truncate_at > 0
                      THEN context.len + truncate_at ELSE 0)
    IN  IF current_tokens <= target THEN { context }
        ELSE { [len |-> kept + MarkerLen, tok |-> t] :
                   t \in {1, MinOf(kept + MarkerLen, current_tokens + MarkerLen)} }

(* should_compress, lines 227-229 *)
ShouldCompress(current_tokens) == current_tokens >= compression_threshold

(* ---- inputs ---- *)

MaxMsgs == 5
SmallMaxTokens == 30

MaxContextTokens == 4000
ContextCompressionThreshold == 3000
SmallThreshold == 20
ScenarioMsgs == 5
ScenarioPreserve == 3

SmallTexts == { [len |-> 4, tok |-> 1], [len |-> 60, tok |-> 6], [len |-> 20, tok |-> 12] }

SmallAdditional ==
    { NoText, EmptyText, [len |-> 40, tok |-> 8], [len |-> 120, tok |-> 28] }

(* Contents of about 800 tokens. *)
ScenarioTexts == { [len |-> 4 * t, tok |-> t] : t \in {795, 796, 800, 810} }

ScenarioAdditional == { NoText, [len |-> 8000, tok |-> 2000] }

PreserveChoices == {0, 1, 3}

Roles == <<"user", "assistant", "system">>

(* The n-message conversation with the contents cs, roles alternating. *)
Conversation(cs) ==
    [i \in 1..Len(cs) |-> [id |-> i, role |-> Roles[((i - 1) % 2) + 1], content |-> cs[i]]]

RECURSIVE SeqsOfLen(_, _)
SeqsOfLen(A, n) ==
    IF n = 0 THEN { << >> }
    ELSE { Append(s, c) : s \in SeqsOfLen(A, n - 1), c \in A }

CtxReset ==
    /\ cxpc = "call"
    /\ optimized_messages = << >>
    /\ context_summary = NoText
    /\ summary = NoText
    /\ returned_context = NoText
    /\ total_tokens = 0
    /\ summarize_call = << >>
    /\ recent_messages = << >>
    /\ older_messages = << >>

(* The context manager at rest (specifications of the other components). *)
CtxIdle ==
    /\ max_tokens = MaxContextTokens
    /\ compression_threshold = ContextCompressionThreshold
    /\ messages = << >>
    /\ additional_context = NoText
    /\ preserve_recent = ScenarioPreserve
    /\ CtxReset

CtxInit ==
    /\ \/ /\ max_tokens = SmallMaxTokens
          /\ compression_threshold = SmallThreshold
          /\ \E n \in 0..MaxMsgs : \E cs \in SeqsOfLen(SmallTexts, n) :
                messages = Conversation(cs)
          /\ additional_context \in SmallAdditional
          /\ preserve_recent \in PreserveChoices
       \/ /\ max_tokens = MaxContextTokens
          /\ compression_threshold = ContextCompressionThreshold
          /\ \E cs \in SeqsOfLen(ScenarioTexts, ScenarioMsgs) :
                messages = Conversation(cs)
          /\ additional_context \in ScenarioAdditional
          /\ preserve_recent = ScenarioPreserve
    /\ CtxReset

(* ---- operations ---- *)

(* optimize_context, lines 64-115, with the calls it makes. *)
OptimizeContext ==
    /\ cxpc = "call"
    /\ cxpc' = "done"
    /\ IF messages = << >>
       THEN /\ optimized_messages' = << >>
            /\ context_summary' = EmptyText
            /\ returned_context' = additional_context
            /\ total_tokens' = 0
            /\ UNCHANGED <<summary, summarize_call, recent_messages, older_messages>>
       ELSE
        LET recent == RecentMessages(messages, preserve_recent)
            older  == OlderMessages(messages, preserve_recent)
            recent_tokens   == CountMessagesTokens(recent)
            additional_tokens ==
                IF Truthy(additional_context) THEN CountTokens(additional_context) ELSE 0
            available_tokens == AvailableTokens(recent_tokens, additional_tokens)
            older_tokens == CountMessagesTokens(older)
            summarizing == /\ available_tokens > 0
                           /\ older # << >>
                           /\ ~FitsBudget(older_tokens, available_tokens)
            keep_all == /\ available_tokens > 0
                        /\ older # << >>
                        /\ FitsBudget(older_tokens, available_tokens)
        IN  \E so \in (IF summarizing
                       THEN SummarizeOutcomes(older, SummaryBudget(available_tokens))
                       ELSE { [failed |-> FALSE, text |-> NoText] }) :
            LET optimized == IF keep_all THEN messages ELSE recent
                total1 == IF keep_all THEN recent_tokens + older_tokens + additional_tokens
                          ELSE IF summarizing
                          THEN recent_tokens + CountTokens(so.text) + additional_tokens
                          ELSE recent_tokens + additional_tokens
                compressing == total1 > max_tokens /\ Truthy(additional_context)
            IN  \E cc \in (IF compressing
                           THEN CompressOutcomes(additional_context,
                                                 max_tokens - CountMessagesTokens(optimized))
                           ELSE { additional_context }) :
                /\ recent_messages' = recent
                /\ older_messages' = older
                /\ optimized_messages' = optimized
                /\ summary' = so.text
                /\ context_summary' =
                      IF summarizing
                      THEN [len |-> 31 + so.text.len + 2, tok |-> so.text.tok]
                      ELSE EmptyText
                /\ summarize_call' =
                      IF summarizing
                      THEN << [messages |-> older,
                               max_tokens |-> SummaryBudget(available_tokens),
                               failed |-> so.failed] >>
                      ELSE << >>
                /\ returned_context' = cc
                /\ total_tokens' =
                      IF compressing
                      THEN CountMessagesTokens(optimized) + CountTokens(cc)
                      ELSE total1
    /\ UNCHANGED <<max_tokens, messages, additional_context, preserve_recent,
                   compression_threshold>>
    /\ UNCHANGED notCtx

CtxNext == OptimizeContext

-----------------------------------------------------------------------------
(* HybridSearchEngine *)

NoFilter == "None"
NoVector == [k |-> 0, alpha |-> -1]
NoAlpha == -1
Absent == -1

(* Variant that sends the vector query under every strategy. *)
BuildSearchParamsAlwaysVector(q, strat, maxr, sw, filter) ==
    [ q |-> IF strat = "semantic" THEN "*" ELSE q,
      per_page |-> maxr,
      filter_by |-> IF filter # NoFilter /\ filter # "" THEN filter ELSE NoFilter,
      query_by_weights |-> strat = "keyword",
      vector_query |->
          IF strat = "semantic" THEN [k |-> maxr, alpha |-> NoAlpha]
          ELSE [k |-> maxr, alpha |-> sw] ]

(* search_params as built by lines 150-174. *)
BuildSearchParams(q, strat, maxr, sw, filter) ==
    [ q |-> IF strat = "semantic" THEN "*" ELSE q,
      per_page |-> maxr,
      filter_by |-> IF filter # NoFilter /\ filter # "" THEN filter ELSE NoFilter,
      query_by_weights |-> strat = "keyword",
      vector_query |->
          CASE strat = "keyword"  -> NoVector
            [] strat = "semantic" -> [k |-> maxr, alpha |-> NoAlpha]
            [] strat = "hybrid"   -> [k |-> maxr, alpha |-> sw] ]

(* ---- the index collaborator ---- *)

MaxDistance == 3

(* Chunks the index can hold: id, document, lexical score of the query      *)
(* against the chunk (0 = no lexical match), distance to the query vector.  *)
ChunkUniverse ==
    { [id |-> 1, document_id |-> "A", tm |-> 3, vd |-> 2],
      [id |-> 2, document_id |-> "A", tm |-> 1, vd |-> 0],
      [id |-> 3, document_id |-> "B", tm |-> 0, vd |-> 1],
      [id |-> 4, document_id |-> "B", tm |-> 2, vd |-> 3] }

(* The index's blended score of a chunk for fusion weight alpha (tenths):   *)
(* some blend of lexical score and closeness, private to the index.         *)
FusedScore(c, alpha) == (10 - alpha) * c.tm + alpha * (MaxDistance - c.vd)

(* S best first: highest score first, ties by id. *)
RECURSIVE BestFirst(_, _)
BestFirst(S, score) ==
    IF S = {} THEN << >>
    ELSE LET x == CHOOSE x \in S : \A y \in S :
                      \/ score[x] > score[y]
                      \/ score[x] = score[y] /\ x.id <= y.id
         IN  <<x>> \o BestFirst(S \ {x}, score)

FirstN(sq, n) == SubSeq(sq, 1, IF n < Len(sq) THEN n ELSE Len(sq))

(* The hits documents.search returns for params: filtered, best match       *)
(* first, capped at per_page.  A hit carries text_match when the lexical    *)
(* query scored it and vector_distance when a vector query was sent.        *)
IndexHits(idx, params) ==
    LET filtered == {c \in idx : params.filter_by = NoFilter
                                  \/ c.document_id = params.filter_by}
        lexical == {c \in filtered : c.tm > 0}
        Hit(c, tm, vd) == [document |-> [id |-> c.id, document_id |-> c.document_id],
                           text_match |-> tm, vector_distance |-> vd]
    IN  IF params.vector_query = NoVector
        THEN LET ordered == BestFirst(lexical, [c \in lexical |-> c.tm])
             IN  FirstN([i \in 1..Len(ordered) |->
                            Hit(ordered[i], ordered[i].tm, Absent)], params.per_page)
        ELSE IF params.q = "*"
        THEN LET nearest == FirstN(BestFirst(filtered, [c \in filtered |-> 0 - c.vd]),
                                   params.vector_query.k)
             IN  FirstN([i \in 1..Len(nearest) |->
                            Hit(nearest[i], Absent, nearest[i].vd)], params.per_page)
        ELSE LET alpha == IF params.vector_query.alpha = NoAlpha
                          THEN 3 ELSE params.vector_query.alpha
                 ordered == BestFirst(filtered,
                                [c \in filtered |-> FusedScore(c, alpha)])
             IN  FirstN([i \in 1..Len(ordered) |->
                            Hit(ordered[i], ordered[i].tm, ordered[i].vd)], params.per_page)

(* One formatted result, lines 182-192: hit.get('vector_distance',           *)
(* hit.get('text_match', 0)) and hit.get('text_match', 0).                  *)
FormatHit(hit) ==
    [ chunk_id |-> hit.document.id,
      document_id |-> hit.document.document_id,
      relevance_score |->
          IF hit.vector_distance # Absent THEN hit.vector_distance
          ELSE IF hit.text_match # Absent THEN hit.text_match ELSE 0,
      text_match_score |-> IF hit.text_match # Absent THEN hit.text_match ELSE 0 ]

(* ---- inputs ---- *)

DefaultMaxResults == 10
SmallMaxResults == 2

Strategies == {"keyword", "semantic", "hybrid"}

SearchReset ==
    /\ hspc = "call"
    /\ calls = << >>
    /\ results = << >>
    /\ error_logged = FALSE
    /\ failed_call = "none"
    /\ search_raised = FALSE

(* The search engine at rest (specifications of the other components). *)
SearchIdle ==
    /\ index = {}
    /\ query = "question"
    /\ strategy = "hybrid"
    /\ max_results = DefaultMaxResults
    /\ semantic_weight = 5
    /\ document_filter = NoFilter
    /\ hspc = "idle"
    /\ calls = << >>
    /\ results = << >>
    /\ error_logged = FALSE
    /\ failed_call = "none"
    /\ search_raised = FALSE

SearchInit ==
    /\ index \in SUBSET ChunkUniverse
    /\ query = "question"
    /\ strategy \in Strategies
    /\ max_results \in {SmallMaxResults, DefaultMaxResults}
    /\ semantic_weight \in {0, 5, 10}
    /\ document_filter \in {NoFilter, "", "A", "B"}
    /\ SearchReset

(* ---- operations ---- *)

(* Variant of the except clause that logs and re-raises. *)
OnSearchErrorReraise == [results |-> << >>, logged |-> TRUE, raised |-> TRUE]

(* `except Exception`, lines 197-199: log the error and return []. *)
OnSearchError == [results |-> << >>, logged |-> TRUE, raised |-> FALSE]

(* hybrid_search, lines 141-199.  The embedding call comes first, under     *)
(* every strategy; either outbound call may raise.                          *)
HybridSearch ==
    /\ hspc = "call"
    /\ hspc' = "done"
    /\ \E embed_ok \in BOOLEAN : \E search_ok \in BOOLEAN :
        LET params == BuildSearchParams(query, strategy, max_results,
                                        semantic_weight, document_filter)
            hits == IndexHits(index, params)
        IN  IF ~embed_ok
            THEN /\ calls' = << [call |-> "embeddings.create", params |-> << >>] >>
                 /\ failed_call' = "embeddings.create"
                 /\ results' = OnSearchError.results
                 /\ error_logged' = OnSearchError.logged
                 /\ search_raised' = OnSearchError.raised
            ELSE /\ calls' = << [call |-> "embeddings.create", params |-> << >>],
                                [call |-> "documents.search", params |-> <<params>>] >>
                 /\ IF search_ok
                    THEN /\ results' = [i \in 1..Len(hits) |-> FormatHit(hits[i])]
                         /\ error_logged' = FALSE
                         /\ failed_call' = "none"
                         /\ search_raised' = FALSE
                    ELSE /\ failed_call' = "documents.search"
                         /\ results' = OnSearchError.results
                         /\ error_logged' = OnSearchError.logged
                         /\ search_raised' = OnSearchError.raised
    /\ UNCHANGED <<index, query, strategy, max_results, semantic_weight, document_filter>>
    /\ UNCHANGED notSearch

SearchNext == HybridSearch

-----------------------------------------------------------------------------
(* Token counting: count_tokens and its callers *)

(* Texts handed to the tokenizer: length, token count, and whether the text *)
(* contains one of the encoding's special-token strings ("<|endoftext|>").  *)
TokTexts ==
    { [len |-> 0,  tok |-> 0,  special |-> FALSE],
      [len |-> 5,  tok |-> 2,  special |-> FALSE],
      [len |-> 40, tok |-> 9,  special |-> FALSE],
      [len |-> 13, tok |-> 7,  special |-> TRUE],
      [len |-> 30, tok |-> 12, special |-> TRUE] }

NoTokText == [len |-> -1, tok |-> 0, special |-> FALSE]

MaxTokMsgs == 2

(* self.encoding.encode(text), line 30, is called with tiktoken's defaults  *)
(* (disallowed_special="all"): it raises ValueError on a text that contains *)
(* a special-token string.                                                  *)
EncodeRaises(t) == t.special

TokCallers == {"count_tokens", "count_messages_tokens", "get_context_stats"}

TokIdle ==
    /\ tk_caller = "count_tokens"
    /\ tk_messages = << >>
    /\ tk_text = NoTokText
    /\ tk_pc = "idle"
    /\ tk_value = 0
    /\ tk_outcome = "none"

TokInit ==
    /\ tk_caller \in TokCallers
    /\ \E n \in 0..MaxTokMsgs : tk_messages \in SeqsOfLen(TokTexts, n)
    /\ tk_text \in TokTexts \cup {NoTokText}
    /\ tk_caller = "count_tokens" => (tk_messages = << >> /\ tk_text # NoTokText)
    /\ tk_caller = "count_messages_tokens" => tk_text = NoTokText
    /\ tk_pc = "call"
    /\ tk_value = 0
    /\ tk_outcome = "none"

(* count_tokens (28-30), count_messages_tokens (32-40), get_context_stats   *)
(* (237-239): every text is encoded; the first encode that raises ends the  *)
(* call with its exception, none of the three has a handler.                *)
CountCall ==
    /\ tk_pc = "call"
    /\ tk_pc' = "done"
    /\ LET encoded ==
               { tk_messages[i] : i \in 1..Len(tk_messages) }
               \cup (IF tk_caller = "count_tokens"
                        \/ (tk_caller = "get_context_stats" /\ Truthy(tk_text))
                     THEN {tk_text} ELSE {})
           message_tokens == CountMessagesTokens(
               [i \in 1..Len(tk_messages) |-> [role |-> "user", content |-> tk_messages[i]]])
           text_tokens == IF Truthy(tk_text) \/ tk_caller = "count_tokens"
                          THEN CountTokens(tk_text) ELSE 0
       IN  IF \E t \in encoded : EncodeRaises(t)
           THEN /\ tk_outcome' = "ValueError"
                /\ tk_value' = 0
           ELSE /\ tk_outcome' = "ok"
                /\ tk_value' = CASE tk_caller = "count_tokens" -> text_tokens
                                 [] tk_caller = "count_messages_tokens" -> message_tokens
                                 [] tk_caller = "get_context_stats" ->
                                        message_tokens + text_tokens
    /\ UNCHANGED <<tk_caller, tk_messages, tk_text>>
    /\ UNCHANGED notTok

TokNext == CountCall

-----------------------------------------------------------------------------
(* upload_document (app/main.py, lines 99-187) *)

AllowedExtensions == {".txt", ".md", ".text", ".markdown", ".pdf"}

UploadIdle ==
    /\ file_ext = ".txt"
    /\ pdf_parseable = TRUE
    /\ http_status = 0

(* A request: the file's extension, its text (for a .pdf, the text of its   *)
(* page), and whether PdfReader can read the bytes. The processor is built  *)
(* from settings.chunk_size and settings.chunk_overlap (lines 124-127).     *)
UploadInit ==
    /\ file_ext \in AllowedExtensions \cup {".exe"}
    /\ pdf_parseable \in BOOLEAN
    /\ file_ext # ".pdf" => pdf_parseable
    /\ http_status = 0
    /\ chunk_size = DefaultChunkSize
    /\ chunk_overlap = DefaultChunkOverlap
    /\ raw \in ShortTexts \cup {ScenarioText, ScenarioTextBare}
    /\ caller = "upload_document"
    /\ text = << >>
    /\ pc = "upload"
    /\ start = 0
    /\ chunks = << >>
    /\ spans = << >>
    /\ iters = 0
    /\ records = << >>
    /\ outcome = "none"
    /\ estimate = 0

(* Lines 101-135: the extension check and the routing to a processor. An    *)
(* unreadable .pdf makes PdfReader raise at line 87, which line 134 turns   *)
(* into ValueError.                                                         *)
UploadRoute ==
    /\ pc = "upload"
    /\ IF file_ext \notin AllowedExtensions
       THEN /\ http_status' = 400
            /\ pc' = "responded"
            /\ UNCHANGED <<caller, outcome>>
       ELSE IF file_ext = ".pdf" /\ ~pdf_parseable
       THEN /\ caller' = "process_pdf_file"
            /\ outcome' = "ValueError"
            /\ pc' = "done"
            /\ UNCHANGED http_status
       ELSE /\ caller' = IF file_ext = ".pdf" THEN "process_pdf_file"
                                               ELSE "process_text_file"
            /\ pc' = "call"
            /\ UNCHANGED <<http_status, outcome>>
    /\ UNCHANGED <<estimate, chunk_size, chunk_overlap, raw, text, start, chunks,
                   spans, iters, records>>
    /\ UNCHANGED <<file_ext, pdf_parseable>>
    /\ UNCHANGED notUpload

(* Lines 137-187: an exception of the processor is caught at 184 and        *)
(* answered 500; an empty list is answered 400 at 138; anything else is     *)
(* stored, indexed and answered 200.                                        *)
UploadRespond ==
    /\ pc = "done"
    /\ http_status = 0
    /\ pc' = "responded"
    /\ http_status' = IF outcome # "ok" THEN 500
                      ELSE IF records = << >> THEN 400
                      ELSE 200
    /\ UNCHANGED <<estimate, chunk_size, chunk_overlap, caller, raw, text, start,
                   chunks, spans, iters, records, outcome>>
    /\ UNCHANGED <<file_ext, pdf_parseable>>
    /\ UNCHANGED notUpload

UploadNext ==
    UploadRoute \/ ChunkTextEntry \/ LoopStep \/ ChunkReturn \/ UploadRespond

-----------------------------------------------------------------------------
(* ConversationMemory (app/memory/conversation.py) and ask_question *)

MaxConversationHistory == 20

MaxStored == 24

(* limit=None *)
NoLimit == -1

NoFetch == [limit |-> NoLimit, table |-> << >>, result |-> << >>]

FetchLimits == {NoLimit, 0, 1, 2, MaxConversationHistory}

(* The rows of conversation_messages, in timestamp order. *)
StoredMessage(i, role) == [id |-> i, role |-> role]

(* `.order_by(timestamp)` ascending, then `.limit(limit)` when limit is     *)
(* truthy: the first `limit` rows in timestamp order (lines 85-93).         *)
GetConversationMessages(ms, limit) ==
    IF limit = NoLimit \/ limit = 0 THEN ms
    ELSE SubSeq(ms, 1, Min({limit, Len(ms)}))

ConvIdle ==
    /\ stored = << >>
    /\ ask_pc = "idle"
    /\ use_context = TRUE
    /\ conversation_context = << >>
    /\ fetched = NoFetch

(* A conversation just created (create_conversation, lines 22-37). *)
ConvInit ==
    /\ stored = << >>
    /\ ask_pc = "ready"
    /\ use_context = TRUE
    /\ conversation_context = << >>
    /\ fetched = NoFetch

(* ask_question lines 349-358: the question is stored as a user message. *)
AskAddUserMessage ==
    /\ ask_pc = "ready"
    /\ Len(stored) < MaxStored
    /\ \E uc \in BOOLEAN : use_context' = uc
    /\ stored' = Append(stored, StoredMessage(Len(stored) + 1, "user"))
    /\ conversation_context' = << >>
    /\ ask_pc' = "stored"
    /\ UNCHANGED fetched
    /\ UNCHANGED notConv

(* ask_question lines 359-363. *)
AskLoadContext ==
    /\ ask_pc = "stored"
    /\ conversation_context' =
           IF use_context
           THEN GetConversationMessages(stored, MaxConversationHistory)
           ELSE << >>
    /\ ask_pc' = "loaded"
    /\ UNCHANGED <<stored, use_context, fetched>>
    /\ UNCHANGED notConv

(* ask_question lines 366-384: the answer is stored as an assistant message. *)
AskAddAnswer ==
    /\ ask_pc = "loaded"
    /\ stored' = Append(stored, StoredMessage(Len(stored) + 1, "assistant"))
    /\ ask_pc' = "ready"
    /\ UNCHANGED <<use_context, conversation_context, fetched>>
    /\ UNCHANGED notConv

(* A direct call of get_conversation_messages(conversation_id, limit). *)
GetMessages ==
    /\ ask_pc = "ready"
    /\ \E n \in FetchLimits :
          fetched' = [limit |-> n, table |-> stored,
                      result |-> GetConversationMessages(stored, n)]
    /\ UNCHANGED <<stored, ask_pc, use_context, conversation_context>>
    /\ UNCHANGED notConv

ConvNext == AskAddUserMessage \/ AskLoadContext \/ AskAddAnswer \/ GetMessages

-----------------------------------------------------------------------------
(* get_search_engine (app/search/hybrid_search.py, lines 236-245); *)
(* get_orchestrator (app/agents/orchestrator.py, lines 44-51) has the same  *)
(* shape.                                                                   *)

NumCallers == 3

EngineCallers == 1..NumCallers

NoEngine == 0

EngineIdle ==
    /\ search_engine = NoEngine
    /\ engines_built = 0
    /\ gse_pc = [t \in EngineCallers |-> "idle"]
    /\ gse_new = [t \in EngineCallers |-> NoEngine]
    /\ gse_got = [t \in EngineCallers |-> NoEngine]
    /\ gse_writers = {}

(* Module import (line 237) and NumCallers callers about to call. *)
EngineInit ==
    /\ search_engine = NoEngine
    /\ engines_built = 0
    /\ gse_pc = [t \in EngineCallers |-> "call"]
    /\ gse_new = [t \in EngineCallers |-> NoEngine]
    /\ gse_got = [t \in EngineCallers |-> NoEngine]
    /\ gse_writers = {}

(* Line 243: `if _search_engine is None`. *)
GseCheck(t) ==
    /\ gse_pc[t] = "call"
    /\ gse_pc' = [gse_pc EXCEPT ![t] =
                     IF search_engine = NoEngine THEN "construct" ELSE "return"]
    /\ UNCHANGED <<search_engine, engines_built, gse_new, gse_got, gse_writers>>
    /\ UNCHANGED notEngine

(* Line 244, right-hand side: HybridSearchEngine() builds the clients and   *)
(* calls _ensure_collection (lines 20-33), which raises when the index      *)
(* server cannot be reached.                                                *)
GseConstruct(t) ==
    /\ gse_pc[t] = "construct"
    /\ \E ok \in BOOLEAN :
          IF ok
          THEN /\ engines_built' = engines_built + 1
               /\ gse_new' = [gse_new EXCEPT ![t] = engines_built + 1]
               /\ gse_pc' = [gse_pc EXCEPT ![t] = "assign"]
          ELSE /\ gse_pc' = [gse_pc EXCEPT ![t] = "raised"]
               /\ UNCHANGED <<engines_built, gse_new>>
    /\ UNCHANGED <<search_engine, gse_got, gse_writers>>
    /\ UNCHANGED notEngine

(* Line 244, the store into the global. *)
GseAssign(t) ==
    /\ gse_pc[t] = "assign"
    /\ search_engine' = gse_new[t]
    /\ gse_writers' = gse_writers \cup {t}
    /\ gse_pc' = [gse_pc EXCEPT ![t] = "return"]
    /\ UNCHANGED <<engines_built, gse_new, gse_got>>
    /\ UNCHANGED notEngine

(* Line 245: `return _search_engine` reads the global again. *)
GseReturn(t) ==
    /\ gse_pc[t] = "return"
    /\ gse_got' = [gse_got EXCEPT ![t] = search_engine]
    /\ gse_pc' = [gse_pc EXCEPT ![t] = "done"]
    /\ UNCHANGED <<search_engine, engines_built, gse_new, gse_writers>>
    /\ UNCHANGED notEngine

EngineNext ==
    \E t \in EngineCallers :
        GseCheck(t) \/ GseConstruct(t) \/ GseAssign(t) \/ GseReturn(t)

-----------------------------------------------------------------------------
(* ask_question (app/main.py, lines 333-415) over the persisted             *)
(* conversations and messages                                               *)

MaxAsks == 3

NoConversation == 0

NoRequest == [conversation_id |-> NoConversation, special |-> FALSE]

(* A request names no conversation, a stored one, or one that does not      *)
(* exist; its question may contain a special-token string.                  *)
AskRequests ==
    { [conversation_id |-> c, special |-> sp] :
          c \in {NoConversation} \cup 1..(MaxAsks + 1), sp \in BOOLEAN }

MessageRow(c, role) == [conversation_id |-> c, role |-> role]

AskIdle ==
    /\ db_conversations = 0
    /\ db_messages = << >>
    /\ aq_pc = "idle"
    /\ aq_request = NoRequest
    /\ aq_conversation_id = NoConversation
    /\ aq_status = 0
    /\ aq_before = [conversations |-> 0, messages |-> << >>]
    /\ aq_count = 0

(* An empty database (init_db) and no request yet. *)
AskInit ==
    /\ db_conversations = 0
    /\ db_messages = << >>
    /\ aq_pc = "ready"
    /\ aq_request = NoRequest
    /\ aq_conversation_id = NoConversation
    /\ aq_status = 0
    /\ aq_before = [conversations |-> 0, messages |-> << >>]
    /\ aq_count = 0

(* Lines 333-347: a request arrives; its conversation is looked up (404 if  *)
(* it does not exist) or created and committed (create_conversation,        *)
(* conversation.py 28-34).                                                  *)
AskResolve ==
    /\ aq_pc \in {"ready", "responded"}
    /\ aq_count < MaxAsks
    /\ aq_count' = aq_count + 1
    /\ aq_before' = [conversations |-> db_conversations, messages |-> db_messages]
    /\ \E r \in AskRequests :
          /\ aq_request' = r
          /\ IF r.conversation_id # NoConversation
             THEN IF r.conversation_id > db_conversations
                  THEN /\ aq_status' = 404
                       /\ aq_pc' = "responded"
                       /\ aq_conversation_id' = NoConversation
                       /\ UNCHANGED db_conversations
                  ELSE /\ aq_status' = 0
                       /\ aq_pc' = "resolved"
                       /\ aq_conversation_id' = r.conversation_id
                       /\ UNCHANGED db_conversations
             ELSE /\ aq_status' = 0
                  /\ aq_pc' = "resolved"
                  /\ db_conversations' = db_conversations + 1
                  /\ aq_conversation_id' = db_conversations + 1
    /\ UNCHANGED db_messages
    /\ UNCHANGED notAsk

(* Lines 349-355: count_tokens(request.question) is evaluated first and     *)
(* raises on a special-token string (handled at 413-415); otherwise         *)
(* add_message stores and commits the user message (conversation.py 48-65). *)
AskStoreQuestion ==
    /\ aq_pc = "resolved"
    /\ IF EncodeRaises(aq_request)
       THEN /\ aq_status' = 500
            /\ aq_pc' = "responded"
            /\ UNCHANGED db_messages
       ELSE /\ db_messages' = Append(db_messages, MessageRow(aq_conversation_id, "user"))
            /\ aq_pc' = "user_stored"
            /\ UNCHANGED aq_status
    /\ UNCHANGED <<db_conversations, aq_request, aq_conversation_id, aq_before, aq_count>>
    /\ UNCHANGED notAsk

(* Lines 357-384: the context is loaded, the orchestrator answers, and      *)
(* add_message stores and commits the assistant message; a commit the       *)
(* database refuses raises and is answered 500 (413-415).                   *)
AskStoreAnswer ==
    /\ aq_pc = "user_stored"
    /\ \E committed \in BOOLEAN :
          IF committed
          THEN /\ db_messages' =
                      Append(db_messages, MessageRow(aq_conversation_id, "assistant"))
               /\ aq_pc' = "answered"
               /\ UNCHANGED aq_status
          ELSE /\ aq_status' = 500
               /\ aq_pc' = "responded"
               /\ UNCHANGED db_messages
    /\ UNCHANGED <<db_conversations, aq_request, aq_conversation_id, aq_before, aq_count>>
    /\ UNCHANGED notAsk

(* Lines 386-415: search history and agent decisions are logged, each with  *)
(* its own commit (conversation.py 149-150, 182-183); a failure there is    *)
(* answered 500, otherwise the answer is returned.                          *)
AskLogAndRespond ==
    /\ aq_pc = "answered"
    /\ \E logged \in BOOLEAN : aq_status' = IF logged THEN 200 ELSE 500
    /\ aq_pc' = "responded"
    /\ UNCHANGED <<db_conversations, db_messages, aq_request, aq_conversation_id,
                   aq_before, aq_count>>
    /\ UNCHANGED notAsk

AskNext == AskResolve \/ AskStoreQuestion \/ AskStoreAnswer \/ AskLogAndRespond

-----------------------------------------------------------------------------
(* upload_document (app/main.py, lines 140-187) and delete_document (lines  *)
(* 213-236) over the database and the search index                          *)

MaxDocs == 2

MaxChunks == 2

DocIds == 1..MaxDocs

NoResponse == [op |-> "none", document_id |-> 0, status |-> 0, chunks_created |-> 0]

ChunksOf(table, d) == { c \in table : c[1] = d }

StoreIdle ==
    /\ db_documents = {}
    /\ db_chunk_count = [d \in DocIds |-> 0]
    /\ db_chunks = {}
    /\ ix_chunks = {}
    /\ st_response = NoResponse
    /\ st_uploads = 0

(* An empty database and an empty collection. *)
StoreInit ==
    /\ db_documents = {}
    /\ db_chunk_count = [d \in DocIds |-> 0]
    /\ db_chunks = {}
    /\ ix_chunks = {}
    /\ st_response = NoResponse
    /\ st_uploads = 0

(* upload_document for a file the processor turned into n chunks. Each      *)
(* chunk is added to the session and flushed (lines 146-154), then handed   *)
(* to index_document_chunk (157-164), which returns False when the          *)
(* embedding or the upsert fails (hybrid_search.py 88-116); chunk_count is  *)
(* len(chunks) (170) and the commit (171) makes the rows durable. No chunk  *)
(* is answered 400 at line 138; a refused commit is rolled back and         *)
(* answered 500 (184-187).                                                  *)
UploadDocument ==
    /\ st_uploads < MaxDocs
    /\ st_uploads' = st_uploads + 1
    /\ LET d == st_uploads + 1
       IN  \E n \in 0..MaxChunks :
           \E indexed \in SUBSET (0..(n - 1)) :
           \E committed \in BOOLEAN :
               IF n = 0
               THEN /\ st_response' = [op |-> "upload", document_id |-> d,
                                       status |-> 400, chunks_created |-> 0]
                    /\ UNCHANGED <<db_documents, db_chunk_count, db_chunks, ix_chunks>>
               ELSE /\ ix_chunks' = ix_chunks \cup { <<d, i>> : i \in indexed }
                    /\ IF committed
                       THEN /\ db_documents' = db_documents \cup {d}
                            /\ db_chunk_count' = [db_chunk_count EXCEPT ![d] = n]
                            /\ db_chunks' = db_chunks \cup { <<d, i>> : i \in 0..(n - 1) }
                            /\ st_response' =
                                   [op |-> "upload", document_id |-> d, status |-> 200,
                                    chunks_created |-> Cardinality(indexed)]
                       ELSE /\ st_response' = [op |-> "upload", document_id |-> d,
                                               status |-> 500, chunks_created |-> 0]
                            /\ UNCHANGED <<db_documents, db_chunk_count, db_chunks>>
    /\ UNCHANGED notStore

(* delete_document: 404 for an unknown id (216-219); otherwise              *)
(* delete_document_chunks, whose False on failure is not looked at          *)
(* (hybrid_search.py 203-211, main.py 224), then the delete of the row,     *)
(* cascading to its chunks, and the commit (227-228); a refused commit is   *)
(* rolled back and answered 500 (233-236).                                  *)
DeleteDocument ==
    /\ \E d \in DocIds :
          IF d \notin db_documents
          THEN /\ st_response' = [op |-> "delete", document_id |-> d,
                                  status |-> 404, chunks_created |-> 0]
               /\ UNCHANGED <<db_documents, db_chunk_count, db_chunks, ix_chunks>>
          ELSE \E index_deleted \in BOOLEAN :
               \E committed \in BOOLEAN :
                   /\ ix_chunks' = IF index_deleted
                                   THEN ix_chunks \ ChunksOf(ix_chunks, d)
                                   ELSE ix_chunks
                   /\ IF committed
                      THEN /\ db_documents' = db_documents \ {d}
                           /\ db_chunk_count' = [db_chunk_count EXCEPT ![d] = 0]
                           /\ db_chunks' = db_chunks \ ChunksOf(db_chunks, d)
                           /\ st_response' = [op |-> "delete", document_id |-> d,
                                              status |-> 200, chunks_created |-> 0]
                      ELSE /\ st_response' = [op |-> "delete", document_id |-> d,
                                              status |-> 500, chunks_created |-> 0]
                           /\ UNCHANGED <<db_documents, db_chunk_count, db_chunks>>
    /\ UNCHANGED st_uploads
    /\ UNCHANGED notStore

StoreNext == UploadDocument \/ DeleteDocument

-----------------------------------------------------------------------------
(* Specifications: one call into one component, the others at rest. *)

InitChunk == ChunkInit /\ CtxIdle /\ SearchIdle /\ TokIdle /\ UploadIdle /\ ConvIdle /\ EngineIdle /\ AskIdle /\ StoreIdle

SpecChunk == InitChunk /\ [][ChunkNext]_vars

InitCtx == CtxInit /\ ChunkIdle /\ SearchIdle /\ TokIdle /\ UploadIdle /\ ConvIdle /\ EngineIdle /\ AskIdle /\ StoreIdle

SpecCtx == InitCtx /\ [][CtxNext]_vars

InitSearch == SearchInit /\ ChunkIdle /\ CtxIdle /\ TokIdle /\ UploadIdle /\ ConvIdle /\ EngineIdle /\ AskIdle /\ StoreIdle

SpecSearch == InitSearch /\ [][SearchNext]_vars

InitChunkAny == ChunkAnyInit /\ CtxIdle /\ SearchIdle /\ TokIdle /\ UploadIdle /\ ConvIdle /\ EngineIdle /\ AskIdle /\ StoreIdle

SpecChunkAny == InitChunkAny /\ [][ChunkAnyNext]_vars

InitUpload == UploadInit /\ CtxIdle /\ SearchIdle /\ TokIdle /\ ConvIdle /\ EngineIdle /\ AskIdle /\ StoreIdle

SpecUpload == InitUpload /\ [][UploadNext]_vars

InitConv == ConvInit /\ ChunkIdle /\ CtxIdle /\ SearchIdle /\ TokIdle /\ UploadIdle /\ EngineIdle /\ AskIdle /\ StoreIdle

SpecConv == InitConv /\ [][ConvNext]_vars

InitTok == TokInit /\ ChunkIdle /\ CtxIdle /\ SearchIdle /\ UploadIdle /\ ConvIdle /\ EngineIdle /\ AskIdle /\ StoreIdle

SpecTok == InitTok /\ [][TokNext]_vars

InitEngine == EngineInit /\ ChunkIdle /\ CtxIdle /\ SearchIdle /\ TokIdle /\ UploadIdle /\ ConvIdle /\ AskIdle /\ StoreIdle

SpecEngine == InitEngine /\ [][EngineNext]_vars

InitAsk == AskInit /\ ChunkIdle /\ CtxIdle /\ SearchIdle /\ TokIdle /\ UploadIdle /\ ConvIdle /\ EngineIdle /\ StoreIdle

SpecAsk == InitAsk /\ [][AskNext]_vars

InitStore == StoreInit /\ ChunkIdle /\ CtxIdle /\ SearchIdle /\ TokIdle /\ UploadIdle /\ ConvIdle /\ EngineIdle /\ AskIdle

SpecStore == InitStore /\ [][StoreNext]_vars

-----------------------------------------------------------------------------
(* Properties of DocumentProcessor (checked under SpecChunk) *)

(* The argument _chunk_text receives from the entry point. *)
ChunkArg == IF caller = "process_pdf_file" THEN Strip(FullText(raw)) ELSE raw

(* _chunk_text has been entered (process_pdf_file returns before the call   *)
(* when no text was extracted).                                             *)
ChunkTextCalled == pc # "call" /\ ~(caller = "process_pdf_file" /\ raw = << >>)

(* _chunk_text has come to its end, by return or by exception. *)
ChunkTextEnded == ChunkTextCalled /\ pc \in {"chunked", "raised", "done"}

IsScenario ==
    /\ chunk_size = DefaultChunkSize
    /\ chunk_overlap = DefaultChunkOverlap
    /\ raw \in {ScenarioText, ScenarioTextBare}
    /\ caller # "process_pdf_file"

HasDelimiter(t) == \E k \in 1..Len(Delimiters) : RFind(t, Delimiters[k]) # -1

(* c is t without its leading and trailing whitespace, said without Strip. *)
IsTrimOf(c, t) ==
    \E a \in 0..Len(t) : \E b \in a..Len(t) :
        /\ c = SubSeq(t, a + 1, b)
        /\ \A i \in 1..Len(t) : (i <= a \/ i > b) => IsSpace(t[i])
        /\ c # << >> => (~IsSpace(c[1]) /\ ~IsSpace(c[Len(c)]))

(* C1: with chunk_size=500 and overlap=50, a 1,200-character text with a    *)
(* period about every 100 characters is chunked into exactly 3 chunks of at *)
(* most 500 characters, consecutive chunks overlapping in the source text.  *)
C1_ScenarioThreeChunks ==
    (IsScenario /\ ChunkTextEnded) =>
        /\ pc # "raised" /\ outcome # "TypeError"
        /\ Len(chunks) = 3
        /\ \A i \in 1..Len(chunks) : Len(chunks[i]) <= DefaultChunkSize
        /\ Len(spans) = 3
        /\ \A i \in 1..(Len(spans) - 1) : spans[i + 1][1] < spans[i][2]

(* C2: for boundary-free text of length L the number of chunks returned by  *)
(* _chunk_text equals estimate_chunks(L), also for L > chunk_size.          *)
C2_CountEqualsEstimate ==
    (ChunkTextEnded /\ ~HasDelimiter(ChunkArg) /\ ChunkArg = text) =>
        /\ pc # "raised" /\ outcome # "TypeError"
        /\ Len(chunks) = EstimateChunks(Len(ChunkArg))

C4_ShortTextSingleChunk ==
    (ChunkTextEnded /\ (Len(ChunkArg) <= chunk_size \/ Len(text) <= chunk_size)) =>
        /\ pc # "raised"
        /\ iters = 0
        /\ Len(chunks) = 1
        /\ IsTrimOf(chunks[1], ChunkArg)

(* C4 witness: a short text with whitespace to trim has been returned as    *)
(* one chunk.                                                               *)
C4_Witness ==
    /\ pc = "done"
    /\ caller = "_chunk_text"
    /\ Len(raw) <= chunk_size
    /\ Len(raw) >= 2
    /\ IsSpace(raw[1])
    /\ Len(chunks) = 1
    /\ Len(chunks[1]) < Len(raw)
    /\ chunks[1] # << >>

(* C5: every chunk produced (by _chunk_text, process_text_file or           *)
(* process_pdf_file) has content that is non-empty after trimming, for      *)
(* every input, the empty and the whitespace-only text included.            *)
C5_ContentNeverEmpty ==
    /\ ChunkTextEnded => \A i \in 1..Len(chunks) : Strip(chunks[i]) # << >>
    /\ \A i \in 1..Len(records) : Strip(records[i].content) # << >>

(* C24: on text longer than chunk_size the guard after                      *)
(* `start = end - overlap` compares the new start with the previous chunk's *)
(* start offset and forces start = end when it has not advanced; the loop   *)
(* runs to completion, start growing strictly from one iteration to the     *)
(* next, and _chunk_text returns its chunks without failing.                *)
C24_LoopRunsToCompletion ==
    (ChunkTextCalled /\ Len(text) > chunk_size) =>
        /\ pc # "raised"
        /\ outcome \notin {"TypeError", "ValueError"}
        /\ \A i \in 1..(Len(spans) - 1) : spans[i][1] < spans[i + 1][1]
        /\ pc \in {"chunked", "done"} => start >= Len(text)

(* Where a window [s, e) ends when it is cut just after the last sentence   *)
(* delimiter, of any of the six kinds, that lies in its last                *)
(* chunk_size // 5 characters; e when there is none.                        *)
LastDelimiterEnd(t, s, e) ==
    LET search_start == e - (chunk_size \div 5)
        hits == { i \in (search_start + 1)..(e - 1) :
                    \E k \in 1..Len(Delimiters) :
                        t[i] = Delimiters[k][1] /\ t[i + 1] = Delimiters[k][2] }
    IN  IF hits = {} THEN e ELSE Max(hits) + 1

(* C25: a window whose candidate end start + chunk_size lies before the end *)
(* of the text ends just after the last occurrence, by position, of any of  *)
(* the six sentence delimiters in its last chunk_size // 5 characters, and  *)
(* at the candidate end when there is none; always start < end <= start +   *)
(* chunk_size.                                                              *)
C25_EndAfterLastDelimiter ==
    \A i \in 1..Len(spans) :
        LET s == spans[i][1]
            e == spans[i][2]
        IN  s + chunk_size < Len(text) =>
                /\ e = LastDelimiterEnd(text, s, s + chunk_size)
                /\ s < e /\ e <= s + chunk_size

-----------------------------------------------------------------------------
(* Properties of ContextManager (checked under SpecCtx) *)

(* Token count of additional_context as optimize_context counts it. *)
AdditionalTokens == IF Truthy(additional_context) THEN additional_context.tok ELSE 0

(* The last n and all but the last n messages of the call (n <= length). *)
LastMessages(n) == SubSeq(messages, Len(messages) - n + 1, Len(messages))
ButLastMessages(n) == SubSeq(messages, 1, Len(messages) - n)

(* All messages came back unmodified, with no summary made. *)
AllKeptNoSummary ==
    /\ optimized_messages = messages
    /\ context_summary = EmptyText
    /\ summarize_call = << >>

(* C6 as stated: when the messages' total token count is at most max_tokens,*)
(* optimize_context returns all messages unmodified with an empty summary,  *)
(* whatever additional_context and preserve_recent are.                     *)
C6_MessagesFitKeepsAll ==
    (cxpc = "done" /\ CountMessagesTokens(messages) <= max_tokens) => AllKeptNoSummary

(* C6 as amended: when the messages' total token count plus the token count *)
(* of additional_context is at most max_tokens, optimize_context returns    *)
(* all messages unmodified with an empty summary and leaves the additional  *)
(* context as it was.                                                       *)
C6_AllFitKeepsAll ==
    (cxpc = "done" /\ CountMessagesTokens(messages) + AdditionalTokens <= max_tokens) =>
        /\ AllKeptNoSummary
        /\ returned_context = additional_context

(* C6 witness: older messages and additional context exist and all fit. *)
C6_Witness ==
    /\ cxpc = "done"
    /\ preserve_recent >= 1
    /\ Len(messages) > preserve_recent
    /\ Truthy(additional_context)
    /\ CountMessagesTokens(messages) + AdditionalTokens <= max_tokens
    /\ optimized_messages = messages

(* The call has 3 recent messages and older ones over the available budget. *)
OlderOverBudget ==
    /\ cxpc = "done"
    /\ preserve_recent = 3
    /\ Len(messages) > 3
    /\ CountMessagesTokens(ButLastMessages(3))
          > max_tokens - CountMessagesTokens(LastMessages(3)) - AdditionalTokens

PositiveBudget ==
    max_tokens - CountMessagesTokens(LastMessages(3)) - AdditionalTokens > 0

SummarizedOlder ==
    /\ Len(summarize_call) = 1
    /\ summarize_call[1].messages = ButLastMessages(3)
    /\ context_summary # EmptyText
    /\ context_summary.tok = summary.tok

(* C7 as stated: older messages over the available budget (a zero or        *)
(* negative budget included) are summarized, and the 3 most recent messages *)
(* are returned verbatim.                                                   *)
C7_OverBudgetSummarizes ==
    OlderOverBudget => (SummarizedOlder /\ optimized_messages = LastMessages(3))

(* C7 as amended: older messages over a positive available budget are       *)
(* summarized; with a zero or negative budget they are dropped without a    *)
(* summary; in both cases the 3 most recent messages are returned verbatim. *)
C7_PositiveBudgetSummarizes ==
    OlderOverBudget =>
        /\ optimized_messages = LastMessages(3)
        /\ PositiveBudget => SummarizedOlder
        /\ ~PositiveBudget => (summarize_call = << >> /\ context_summary = EmptyText)

(* C7 witness: the summarization path was taken with additional context. *)
C7_Witness ==
    /\ OlderOverBudget
    /\ PositiveBudget
    /\ Truthy(additional_context)
    /\ Len(summarize_call) = 1

(* The scenario: 5 messages of about 800 tokens, max_tokens = 4000,         *)
(* preserve_recent = 3, no additional context.                              *)
IsCtxScenario ==
    /\ max_tokens = MaxContextTokens
    /\ Len(messages) = ScenarioMsgs
    /\ preserve_recent = ScenarioPreserve
    /\ additional_context = NoText

ScenarioSummarized ==
    /\ Len(summarize_call) = 1
    /\ summarize_call[1].messages = ButLastMessages(3)
    /\ summarize_call[1].max_tokens =
          (max_tokens - CountMessagesTokens(LastMessages(3))) \div 2
    /\ optimized_messages = LastMessages(3)
    /\ total_tokens <= max_tokens

(* C8 as stated: in the scenario the 2 oldest messages are summarized with  *)
(* a budget of available // 2, the 3 most recent are returned verbatim and  *)
(* total_tokens <= max_tokens, whether the summarizer succeeds or fails.    *)
C8_ScenarioSummarizes ==
    (cxpc = "done" /\ IsCtxScenario) => ScenarioSummarized

(* C8 as amended: the same, for 5 messages whose count_messages_tokens      *)
(* total is above max_tokens (each message above 800 with its role and      *)
(* framing tokens, as with 800 content tokens each).                        *)
C8_ScenarioOverLimitSummarizes ==
    (cxpc = "done" /\ IsCtxScenario /\ CountMessagesTokens(messages) > max_tokens) =>
        ScenarioSummarized

(* C8 witness: five messages of 800 content tokens, summarizer failed. *)
C8_Witness ==
    /\ cxpc = "done"
    /\ IsCtxScenario
    /\ \A i \in 1..Len(messages) : messages[i].content.tok = 800
    /\ Len(summarize_call) = 1
    /\ summarize_call[1].failed

(* The summarizer was called and failed (it raised, or its response had no *)
(* summary text, which makes line 161 raise).                               *)
SummarizerFailed ==
    /\ cxpc = "done"
    /\ Len(summarize_call) = 1
    /\ summarize_call[1].failed

(* Characters message i of ms gives to the fallback (0 beyond the list). *)
FallbackShare(ms, i) ==
    IF i <= Len(ms) THEN (IF ms[i].content.len < 50 THEN ms[i].content.len ELSE 50) ELSE 0

SplitSize == MinOf(preserve_recent, Len(messages))

(* C22: the messages are split so that recent is exactly the last           *)
(* min(preserve_recent, len(messages)) messages and older the remaining     *)
(* prefix, older ++ recent being the input; preserve_recent = 0 puts every  *)
(* message in older.                                                        *)
C22_SplitLastN ==
    (cxpc = "done" /\ messages # << >>) =>
        /\ recent_messages = LastMessages(SplitSize)
        /\ older_messages = ButLastMessages(SplitSize)
        /\ older_messages \o recent_messages = messages

RecentTokens == CountMessagesTokens(recent_messages)

NoSummarizing ==
    \/ older_messages = << >>
    \/ max_tokens - RecentTokens - AdditionalTokens <= 0

(* C23: when older is empty or available <= 0 (an empty message list        *)
(* included), only the recent messages are kept, the summary prefix is      *)
(* empty, and the total before any compression is recent_tokens +           *)
(* additional_tokens; for an empty message list with additional context the *)
(* total is the token count of that context.                                *)
C23_RecentOnlyTotal ==
    (cxpc = "done" /\ NoSummarizing) =>
        /\ optimized_messages = recent_messages
        /\ context_summary = EmptyText
        /\ summarize_call = << >>
        /\ RecentTokens + AdditionalTokens <= max_tokens =>
               total_tokens = RecentTokens + AdditionalTokens

(* Token count of the messages of the call plus the additional context. *)
CallTokens == CountMessagesTokens(messages) + AdditionalTokens

(* C26: whenever the token count of messages plus additional context is     *)
(* above compression_threshold, even if still within max_tokens, the        *)
(* additional context comes back shortened; should_compress(tokens) is      *)
(* tokens >= compression_threshold.                                         *)
C26_ThresholdShortensContext ==
    /\ \A t \in {CallTokens, compression_threshold, compression_threshold - 1} :
           ShouldCompress(t) <=> t >= compression_threshold
    /\ (cxpc = "done" /\ CallTokens > compression_threshold
          /\ Truthy(additional_context)) =>
           returned_context.len < additional_context.len

ReturnedTokens == IF Truthy(returned_context) THEN CountTokens(returned_context) ELSE 0

SummaryTokens == IF summarize_call # << >> THEN CountTokens(summary) ELSE 0

(* C27: the returned total_tokens is the token count of the returned        *)
(* messages, plus that of the summary when one was produced, plus that of   *)
(* the additional context as returned (after any compression); the summary  *)
(* stays counted when compression follows summarization.                    *)
C27_TotalIsSumOfParts ==
    cxpc = "done" =>
        total_tokens = CountMessagesTokens(optimized_messages) + SummaryTokens
                       + ReturnedTokens

(* The compression step replaced the additional context. *)
ContextCompressed ==
    /\ cxpc = "done"
    /\ Truthy(additional_context)
    /\ returned_context # additional_context

CompressTarget == max_tokens - CountMessagesTokens(optimized_messages)

KeptChars == returned_context.len - MarkerLen

(* C28: when the additional context is compressed to a target below its     *)
(* token count, what comes back is a prefix of the original plus the        *)
(* truncation marker, the prefix having at most 0.9 * len * target /        *)
(* current characters; a target of zero or less keeps no character.         *)
C28_KeptPrefixBounded ==
    ContextCompressed =>
        /\ KeptChars >= 0
        /\ CompressTarget > 0 =>
               10 * CountTokens(additional_context) * KeptChars
                   <= 9 * additional_context.len * CompressTarget
        /\ CompressTarget <= 0 => KeptChars = 0

-----------------------------------------------------------------------------
(* Properties of HybridSearchEngine (checked under SpecSearch) *)

(* The search_params sent to the index, if the call came to it. *)
SentParams == { calls[i].params[1] : i \in {j \in 1..Len(calls) : calls[j].call = "documents.search"} }

(* C9: under every strategy the returned results are in descending order of *)
(* relevance_score, the index returning its hits best match first.          *)
C9_DescendingRelevance ==
    hspc = "done" =>
        \A i \in 1..(Len(results) - 1) :
            results[i].relevance_score >= results[i + 1].relevance_score

(* C10: the query sent to the index has no vector query under KEYWORD, and  *)
(* under SEMANTIC it has the wildcard lexical query "*" together with a     *)
(* nearest-neighbour vector query with k = max_results.                     *)
C10_StrategyShapesQuery ==
    \A sent \in SentParams :
        /\ strategy = "keyword" => sent.vector_query = NoVector
        /\ strategy = "semantic" =>
              /\ sent.q = "*"
              /\ sent.vector_query # NoVector
              /\ sent.vector_query.k = max_results

(* C10 witness: a KEYWORD search and its query have gone to the index and   *)
(* come back with hits.                                                     *)
C10_Witness ==
    /\ hspc = "done"
    /\ strategy = "keyword"
    /\ SentParams # {}
    /\ Len(results) >= 2

(* The indexed chunk a result was made from. *)
ChunkOfResult(r) == CHOOSE c \in index : c.id = r.chunk_id

EmbeddingCalls == {i \in 1..Len(calls) : calls[i].call = "embeddings.create"}

(* C11: under KEYWORD hybrid_search makes no embedding call, so a failing   *)
(* embedding collaborator cannot change the outcome, and every result has   *)
(* relevance_score = text_match_score.                                      *)
C11_KeywordNoEmbedding ==
    (hspc = "done" /\ strategy = "keyword") =>
        /\ EmbeddingCalls = {}
        /\ failed_call # "embeddings.create"
        /\ \A i \in 1..Len(results) :
              results[i].relevance_score = results[i].text_match_score

(* C12: under SEMANTIC a closer hit has the higher score: of two results of *)
(* one query, the one with the smaller vector distance has a relevance      *)
(* score at least as large.                                                 *)
C12_SemanticCloserScoresHigher ==
    (hspc = "done" /\ strategy = "semantic") =>
        \A i, j \in 1..Len(results) :
            ChunkOfResult(results[i]).vd < ChunkOfResult(results[j]).vd
                => results[i].relevance_score >= results[j].relevance_score

(* C13: under HYBRID the vector query carries alpha = semantic_weight and   *)
(* every result's relevance_score is the index's blended score of the hit.  *)
C13_HybridBlendedScore ==
    (hspc = "done" /\ strategy = "hybrid") =>
        /\ \A sent \in SentParams :
              /\ sent.q = query
              /\ sent.vector_query # NoVector
              /\ sent.vector_query.alpha = semantic_weight
        /\ \A i \in 1..Len(results) :
              results[i].relevance_score
                  = FusedScore(ChunkOfResult(results[i]), semantic_weight)

(* C14: a supplied document_filter X, whatever its value, restricts the     *)
(* query to document_id = X: every result is of document X, and the         *)
(* max_results cap applies to the hits of X.                                *)
C14_FilterRestricts ==
    (hspc = "done" /\ document_filter # NoFilter) =>
        /\ \A sent \in SentParams : sent.filter_by = document_filter
        /\ \A i \in 1..Len(results) : results[i].document_id = document_filter

(* C15: hybrid_search never raises; when the embedding call or the index    *)
(* query fails it returns the empty list, logs the failure, and the failing *)
(* call is the last outbound call.                                          *)
C15_FailureReturnsEmpty ==
    hspc = "done" =>
        /\ ~search_raised
        /\ failed_call # "none" =>
              /\ results = << >>
              /\ error_logged
              /\ calls # << >>
              /\ calls[Len(calls)].call = failed_call
              /\ \A i \in 1..(Len(calls) - 1) : calls[i].call # failed_call

(* C15 witness: the index query failed on an index that had hits to give. *)
C15_Witness ==
    /\ hspc = "done"
    /\ failed_call = "documents.search"
    /\ index # {}
    /\ Len(calls) = 2
    /\ results = << >>

-----------------------------------------------------------------------------
(* Properties of token counting (checked under SpecTok) *)

(* C17: count_tokens, and with it count_messages_tokens and                 *)
(* get_context_stats, never raises, whatever printable text it is given,    *)
(* text containing a special-token string such as "<|endoftext|>" included. *)
C17_CountTokensNeverRaises ==
    tk_pc = "done" => tk_outcome = "ok"

-----------------------------------------------------------------------------
(* Properties of a DocumentProcessor with chunk_overlap >= chunk_size       *)
(* (checked under SpecChunkAny)                                             *)

(* C18: a processor configured with chunk_overlap >= chunk_size is rejected *)
(* with a validation failure: it never gets as far as chunking a text or    *)
(* computing an estimate.                                                   *)
C18_InvalidConfigRejected ==
    chunk_overlap >= chunk_size =>
        /\ pc \notin {"loop", "chunked", "raised"}
        /\ pc = "done" => outcome = "ValidationFailure"

-----------------------------------------------------------------------------
(* Properties of upload_document (checked under SpecUpload) *)

UsableRecords == { i \in 1..Len(records) : Strip(records[i].content) # << >> }

Unchunkable ==
    \/ file_ext \notin AllowedExtensions
    \/ file_ext = ".pdf" /\ ~pdf_parseable
    \/ UsableRecords = {}

(* C19: an upload whose file cannot be turned into chunks (unsupported      *)
(* extension, unreadable .pdf, or no usable chunk) is answered with status  *)
(* 400, never 200 and never 500.                                            *)
C19_UnchunkableIs400 ==
    (pc = "responded" /\ Unchunkable) => http_status = 400

-----------------------------------------------------------------------------
(* Properties of ConversationMemory (checked under SpecConv) *)

MostRecent(ms, n) == SubSeq(ms, Len(ms) - Min({n, Len(ms)}) + 1, Len(ms))

(* C20: get_conversation_messages(conversation_id, limit=n) returns the n   *)
(* most recent messages (all of them if there are fewer), oldest first; and *)
(* the context ask_question loads after storing the question contains that  *)
(* question, however long the conversation is.                              *)
C20_LimitKeepsMostRecent ==
    /\ fetched.limit > 0 => fetched.result = MostRecent(fetched.table, fetched.limit)
    /\ (ask_pc = "loaded" /\ use_context) =>
           \E i \in 1..Len(conversation_context) :
               conversation_context[i] = stored[Len(stored)]

-----------------------------------------------------------------------------
(* Properties of get_search_engine (checked under SpecEngine) *)

(* C21: however concurrent first calls of get_search_engine interleave, at  *)
(* most one call writes the module-level engine, and all callers that get   *)
(* an engine get the same one.                                              *)
C21_OneEngineOneWriter ==
    /\ Cardinality(gse_writers) <= 1
    /\ \A t, u \in EngineCallers :
           (gse_pc[t] = "done" /\ gse_pc[u] = "done") => gse_got[t] = gse_got[u]

-----------------------------------------------------------------------------
(* Properties of ask_question (checked under SpecAsk) *)

(* The messages of conversation c, in order. *)
MessagesOf(c) == SelectSeq(db_messages, LAMBDA m : m.conversation_id = c)

(* C29: ask_question is all-or-nothing on persisted state: between requests *)
(* every stored user message is followed by its assistant reply, and a      *)
(* request answered 404 or 500 leaves no new conversation and no new        *)
(* message.                                                                 *)
C29_AskAllOrNothing ==
    aq_pc = "responded" =>
        /\ \A c \in 1..db_conversations :
               \A i \in 1..Len(MessagesOf(c)) :
                   MessagesOf(c)[i].role = "user" =>
                       /\ i < Len(MessagesOf(c))
                       /\ MessagesOf(c)[i + 1].role = "assistant"
        /\ aq_status \in {404, 500} =>
               /\ db_conversations = aq_before.conversations
               /\ db_messages = aq_before.messages

-----------------------------------------------------------------------------
(* Properties of upload_document and delete_document (checked under         *)
(* SpecStore)                                                               *)

(* C30: after any sequence of completed uploads and deletes, with           *)
(* individual embedding or index calls failing, the index holds a chunk if  *)
(* and only if the database holds its row for an existing document; so the  *)
(* chunks_created an upload reports equals the stored chunk_count, and a    *)
(* deleted document has no chunk left in the index.                         *)
C30_IndexMatchesDatabase ==
    /\ ix_chunks = { c \in db_chunks : c[1] \in db_documents }
    /\ (st_response.op = "upload" /\ st_response.status = 200) =>
           st_response.chunks_created = db_chunk_count[st_response.document_id]
    /\ (st_response.op = "delete" /\ st_response.status = 200) =>
           ChunksOf(ix_chunks, st_response.document_id) = {}

====
